---- MODULE Spec2Model ----
(***************************************************************************)
(* Model of the Veritas ML engine's HTTP handlers                          *)
(* (src/ml_engine/aegis_ml_engine.py): the leverage-health, KYC-risk,      *)
(* invoice-NAV and scenario endpoints, the shared predictor they call and  *)
(* the wall clock they stamp responses with.                               *)
(*                                                                         *)
(* Numbers are exact rationals <<n, d>> (d > 0, lowest terms), so that     *)
(* threshold comparisons such as composite > 0.8 are decided on the value  *)
(* the formula denotes; binary floating-point rounding is not modelled.    *)
(* A request body is a JSON object: a function from the keys it holds to   *)
(* numbers (or strings), so that an absent key and a key holding 0 are     *)
(* different inputs.                                                       *)
(***************************************************************************)
EXTENDS Integers, Sequences, FiniteSets, TLC

(***************************************************************************)
(* Bounds of the model: the requests in flight together, the seconds the   *)
(* clock runs for, the highest investor tier asked for, and the calls of   *)
(* predict() one request may make (the handlers make one at most).         *)
(***************************************************************************)
MaxReq == 2
MaxClock == 1
MaxTier == 5
MaxPredictCalls == 2

Requests == 1..MaxReq

VARIABLES now, pc, endpoint, data, obj, heap, got, calls, resp

vars == <<now, pc, endpoint, data, obj, heap, got, calls, resp>>

(***************************************************************************)
(* Exact rational arithmetic (Python's float operators, without rounding). *)
(***************************************************************************)
RECURSIVE GCD(_, _)
GCD(a, b) == IF b = 0 THEN a ELSE GCD(b, a % b)

Abs(n) == IF n < 0 THEN -n ELSE n

R(n, d) ==
    LET s == IF d < 0 THEN -1 ELSE 1
        g == GCD(Abs(n), Abs(d))
    IN  <<(s * n) \div g, (s * d) \div g>>

Zero == R(0, 1)
One == R(1, 1)

RAdd(x, y) == R(x[1] * y[2] + y[1] * x[2], x[2] * y[2])
RSub(x, y) == R(x[1] * y[2] - y[1] * x[2], x[2] * y[2])
RMul(x, y) == R(x[1] * y[1], x[2] * y[2])
RDiv(x, y) == R(x[1] * y[2], x[2] * y[1])
RLt(x, y) == x[1] * y[2] < y[1] * x[2]
RGt(x, y) == RLt(y, x)
RLe(x, y) == ~RLt(y, x)
RIsZero(x) == x[1] = 0

\* Python's min(a, b) and max(a, b): the first argument unless the second is
\* strictly smaller (larger).
PyMin(a, b) == IF RLt(b, a) THEN b ELSE a
PyMax(a, b) == IF RGt(b, a) THEN b ELSE a

\* The value rounded half-up to four decimals, as an integer number of 1/10000.
Round4(x) == (2 * 10000 * x[1] + x[2]) \div (2 * x[2])

(***************************************************************************)
(* JSON objects (Python dicts).                                            *)
(***************************************************************************)
EmptyDict == <<>>

Restrict(f, K) == [k \in K |-> f[k]]

\* A wrong default: the one predict_invoice_nav uses for totalSupply.
DictGetDefaultOne(d, k, dflt) == IF k \in DOMAIN d THEN d[k] ELSE One

\* dict.get(k, dflt)
DictGet(d, k, dflt) == IF k \in DOMAIN d THEN d[k] ELSE dflt

(***************************************************************************)
(* The predictor's result (VeritasMLEngine.predict) and the values a       *)
(* request holds before it has one.                                        *)
(***************************************************************************)
MODEL_VERSION == "v1.2.0-lstm"

None == [none |-> TRUE]

Raised(e) == [raised |-> e]

PredictorError == "PredictorError"

\* int(datetime.now().timestamp())
EpochSeconds(t) == t

\* datetime.now().isoformat()
IsoFormat(t) == <<"iso", t>>

\* The dict predict() returns. Its metadata (three figures of the market window)
\* enters no handler's arithmetic and is left out.
Prediction(risk, liquidity, confidence, t) ==
    [risk_score |-> risk,
     liquidity_score |-> liquidity,
     confidence |-> confidence,
     model_version |-> MODEL_VERSION,
     timestamp |-> EpochSeconds(t)]

\* The three scores of a MarketAssessment, without the time it was made.
Scores(m) == <<m.risk_score, m.liquidity_score, m.confidence>>

(***************************************************************************)
(* Responses: jsonify(body) with status 200, or jsonify(body), status.     *)
(***************************************************************************)
NoResponse == [status |-> 0, body |-> None]

Ok200(body) == [status |-> 200, body |-> body]

\* except Exception as e: jsonify({'error': str(e), 'timestamp': isoformat}), 500
Error500(e, t) == [status |-> 500, body |-> [error |-> e, timestamp |-> IsoFormat(t)]]

(***************************************************************************)
(* assess_leverage_health: the arithmetic of the handler.                  *)
(***************************************************************************)
LevKeys == {"totalCollateral", "totalBorrowed", "currentHealthFactor", "aitValue"}

LevLtv(total_borrowed, total_collateral) ==
    IF RGt(total_collateral, Zero) THEN RDiv(total_borrowed, total_collateral) ELSE Zero

\* The clamp at 1.0 left out.
LevLtvRiskUnclamped(ltv) == RDiv(ltv, R(7, 10))

LevLtvRisk(ltv) == PyMin(One, RDiv(ltv, R(7, 10)))

LevHealthFactorRisk(hf) == PyMax(Zero, RSub(One, RDiv(hf, R(3, 2))))

LevPositionRisk(ltv, hf, m) ==
    [ltv_risk |-> LevLtvRisk(ltv),
     health_factor_risk |-> LevHealthFactorRisk(hf),
     market_risk |-> m.risk_score,
     liquidity_risk |-> RSub(One, m.liquidity_score)]

\* The weights of ltv_risk and market_risk exchanged.
LevCompositeRiskSwapped(p) ==
    RAdd(RAdd(RAdd(RMul(p.ltv_risk, R(25, 100)),
                   RMul(p.health_factor_risk, R(3, 10))),
              RMul(p.market_risk, R(3, 10))),
         RMul(p.liquidity_risk, R(15, 100)))

LevCompositeRisk(p) ==
    RAdd(RAdd(RAdd(RMul(p.ltv_risk, R(3, 10)),
                   RMul(p.health_factor_risk, R(3, 10))),
              RMul(p.market_risk, R(25, 100))),
         RMul(p.liquidity_risk, R(15, 100)))

\* The thresholds compared with >= instead of >.
LevRiskLevelInclusive(c) ==
    IF RLe(R(8, 10), c) THEN "CRITICAL"
    ELSE IF RLe(R(6, 10), c) THEN "HIGH"
    ELSE IF RLe(R(4, 10), c) THEN "MEDIUM"
    ELSE "LOW"

LevRiskLevel(c) ==
    IF RGt(c, R(8, 10)) THEN "CRITICAL"
    ELSE IF RGt(c, R(6, 10)) THEN "HIGH"
    ELSE IF RGt(c, R(4, 10)) THEN "MEDIUM"
    ELSE "LOW"

LevActionRequired(c) == RGt(c, R(6, 10))

\* The health-factor rule left out.
LevRecommendationsNoEmergency(ltv, hf, m) ==
    (IF RGt(ltv, R(65, 100)) THEN <<"REDUCE_LEVERAGE">> ELSE <<>>)
    \o (IF RLt(m.liquidity_score, R(3, 10)) THEN <<"PAUSE_NEW_POSITIONS">> ELSE <<>>)

LevRecommendations(ltv, hf, m) ==
    (IF RGt(ltv, R(65, 100)) THEN <<"REDUCE_LEVERAGE">> ELSE <<>>)
    \o (IF RLt(hf, R(13, 10)) THEN <<"EMERGENCY_DELEVERAGE">> ELSE <<>>)
    \o (IF RLt(m.liquidity_score, R(3, 10)) THEN <<"PAUSE_NEW_POSITIONS">> ELSE <<>>)

LevExposureRatio(ait_value, total_borrowed) ==
    IF RGt(total_borrowed, Zero) THEN RDiv(ait_value, total_borrowed) ELSE Zero

\* The body of the 200 response, from the request's JSON object d, the
\* prediction m it obtained and the clock t when it answers.
LevVerdict(d, m, t) ==
    LET total_collateral == DictGet(d, "totalCollateral", Zero)
        total_borrowed == DictGet(d, "totalBorrowed", Zero)
        current_health_factor == DictGet(d, "currentHealthFactor", Zero)
        ait_value == DictGet(d, "aitValue", Zero)
        ltv == LevLtv(total_borrowed, total_collateral)
        position_risk == LevPositionRisk(ltv, current_health_factor, m)
        composite_risk == LevCompositeRisk(position_risk)
    IN  [composite_risk_score |-> composite_risk,
         risk_level |-> LevRiskLevel(composite_risk),
         action_required |-> LevActionRequired(composite_risk),
         position_metrics |->
             [ltv |-> ltv,
              health_factor |-> current_health_factor,
              ait_value_usd |-> ait_value,
              exposure_ratio |-> LevExposureRatio(ait_value, total_borrowed)],
         risk_breakdown |-> position_risk,
         recommendations |-> LevRecommendations(ltv, current_health_factor, m),
         timestamp |-> EpochSeconds(t)]

(***************************************************************************)
(* assess_kyc_risk: the arithmetic of the handler.                         *)
(***************************************************************************)
KycKeys == {"investmentAmount", "tier", "jurisdiction", "transactionFrequency",
            "walletAgeDays", "previousDefiExposure"}

KycInvestorData(d) ==
    [investment_amount |-> DictGet(d, "investmentAmount", Zero),
     tier |-> DictGet(d, "tier", 0),
     jurisdiction |-> DictGet(d, "jurisdiction", ""),
     transaction_frequency |-> DictGet(d, "transactionFrequency", Zero),
     wallet_age_days |-> DictGet(d, "walletAgeDays", Zero),
     previous_defi_exposure |-> DictGet(d, "previousDefiExposure", Zero)]

KycRiskFactors(inv) ==
    [amount_risk |-> PyMin(One, RDiv(inv.investment_amount, R(1000000, 1))),
     velocity_risk |-> PyMin(One, RDiv(inv.transaction_frequency, R(100, 1))),
     wallet_risk |-> PyMax(Zero, RSub(One, RDiv(inv.wallet_age_days, R(365, 1)))),
     jurisdiction_risk |->
         IF inv.jurisdiction \in {"US", "EU", "UK"} THEN R(1, 10) ELSE R(3, 10)]

KycRiskScore(f) ==
    RAdd(RAdd(RAdd(RMul(f.amount_risk, R(3, 10)),
                   RMul(f.velocity_risk, R(2, 10))),
              RMul(f.wallet_risk, R(3, 10))),
         RMul(f.jurisdiction_risk, R(2, 10)))

\* The thresholds compared with >= instead of >.
KycClassificationInclusive(s) ==
    IF RLe(R(7, 10), s) THEN "HIGH_RISK"
    ELSE IF RLe(R(4, 10), s) THEN "MEDIUM_RISK"
    ELSE "LOW_RISK"

KycClassification(s) ==
    IF RGt(s, R(7, 10)) THEN "HIGH_RISK"
    ELSE IF RGt(s, R(4, 10)) THEN "MEDIUM_RISK"
    ELSE "LOW_RISK"

KycVerificationRequired(s) == RGt(s, R(4, 10))

KycFlags(inv) ==
    (IF RGt(inv.investment_amount, R(500000, 1)) THEN <<"LARGE_INVESTMENT">> ELSE <<>>)
    \o (IF RLt(inv.wallet_age_days, R(30, 1)) THEN <<"NEW_WALLET">> ELSE <<>>)
    \o (IF RGt(inv.transaction_frequency, R(50, 1)) THEN <<"HIGH_VELOCITY">> ELSE <<>>)

\* Python's min on integers.
IntMin(a, b) == IF b < a THEN b ELSE a

\* The cap applied from 0.5 on, instead of above 0.5.
KycRecommendedTierInclusive(tier, s) ==
    IntMin(tier, IF RLe(R(5, 10), s) THEN 2 ELSE 4)

KycRecommendedTier(tier, s) ==
    IntMin(tier, IF RGt(s, R(5, 10)) THEN 2 ELSE 4)

KycVerdict(d, t) ==
    LET investor_data == KycInvestorData(d)
        risk_factors == KycRiskFactors(investor_data)
        kyc_risk_score == KycRiskScore(risk_factors)
    IN  [kyc_risk_score |-> kyc_risk_score,
         risk_classification |-> KycClassification(kyc_risk_score),
         verification_required |-> KycVerificationRequired(kyc_risk_score),
         risk_factors |-> risk_factors,
         compliance_flags |-> KycFlags(investor_data),
         recommended_tier |-> KycRecommendedTier(investor_data.tier, kyc_risk_score),
         timestamp |-> EpochSeconds(t)]

(***************************************************************************)
(* predict_invoice_nav: the arithmetic of the handler.                     *)
(***************************************************************************)
NavKeys == {"totalFaceValue", "numberOfInvoices", "weightedMaturity", "expectedYield",
            "defaultRate", "realizedYield", "totalSupply"}

\* The outcome of an expression: the value it returns or the exception it raises.
Return(v) == [raised |-> "none", value |-> v]
Raise(e) == [raised |-> e, value |-> Zero]

ZeroDivisionError == "float division by zero"

NavPoolData(d) ==
    [total_face_value |-> DictGet(d, "totalFaceValue", Zero),
     number_of_invoices |-> DictGet(d, "numberOfInvoices", Zero),
     weighted_maturity |-> DictGet(d, "weightedMaturity", Zero),
     expected_yield |-> DictGet(d, "expectedYield", Zero),
     current_default_rate |-> DictGet(d, "defaultRate", Zero),
     realized_yield |-> DictGet(d, "realizedYield", Zero)]

NavMarketAdjustedRate(pool, m) ==
    RMul(RSub(One, pool.current_default_rate),
         RSub(One, RMul(m.risk_score, R(3, 10))))

\* A zero supply guarded the way the leverage handler guards its ratios.
NavPredictedNavGuarded(expected_collections, total_supply) ==
    IF RIsZero(total_supply) THEN Return(Zero)
    ELSE Return(RDiv(expected_collections, total_supply))

\* expected_collections / data.get('totalSupply', 1)
NavPredictedNav(expected_collections, total_supply) ==
    IF RIsZero(total_supply) THEN Raise(ZeroDivisionError)
    ELSE Return(RDiv(expected_collections, total_supply))

NavConfidence(diversification_score, maturity_risk, m) ==
    RAdd(RAdd(RMul(diversification_score, R(4, 10)),
              RMul(RSub(One, maturity_risk), R(3, 10))),
         RMul(m.confidence, R(3, 10)))

\* The whole prediction reported where its risk score is meant.
NavMarketRiskImpactWhole(m) == m

NavMarketRiskImpact(m) == m.risk_score

\* The response of the handler once predict() has returned m: the 200 verdict,
\* or the 500 error of the exception the arithmetic raised.
NavOutcome(d, m, t) ==
    LET pool_data == NavPoolData(d)
        market_adjusted_rate == NavMarketAdjustedRate(pool_data, m)
        expected_collections == RMul(pool_data.total_face_value, market_adjusted_rate)
        predicted_nav == NavPredictedNav(expected_collections, DictGet(d, "totalSupply", One))
        diversification_score == PyMin(One, RDiv(pool_data.number_of_invoices, R(100, 1)))
        maturity_risk == PyMin(One, RDiv(pool_data.weighted_maturity, R(180, 1)))
    IN  IF predicted_nav.raised # "none"
        THEN Error500(predicted_nav.raised, t)
        ELSE Ok200([predicted_nav |-> predicted_nav.value,
                    confidence |-> NavConfidence(diversification_score, maturity_risk, m),
                    expected_collection_rate |-> market_adjusted_rate,
                    risk_adjusted_yield |->
                        RMul(pool_data.expected_yield,
                             RSub(One, RMul(m.risk_score, R(5, 10)))),
                    pool_health_score |-> RSub(One, m.risk_score),
                    diversification_score |-> diversification_score,
                    market_risk_impact |-> NavMarketRiskImpact(m),
                    timestamp |-> EpochSeconds(t)])

(***************************************************************************)
(* scenario_analysis: the adjustment of the prediction.                    *)
(***************************************************************************)
Scenarios == {"base", "stress", "bull"}

ScenarioAdjust(scenario, prediction) ==
    IF scenario = "stress"
    THEN [prediction EXCEPT
              !.risk_score = PyMin(One, RMul(prediction.risk_score, R(3, 2))),
              !.liquidity_score = RMul(prediction.liquidity_score, R(1, 2))]
    ELSE IF scenario = "bull"
    THEN [prediction EXCEPT
              !.risk_score = RMul(prediction.risk_score, R(7, 10)),
              !.liquidity_score = PyMin(One, RMul(prediction.liquidity_score, R(12, 10)))]
    ELSE prediction

(***************************************************************************)
(* The inputs the model draws from.                                        *)
(***************************************************************************)
\* Every JSON object that holds a subset of the keys of one of the full objects.
Objects(full, keys) == {Restrict(f, K) : f \in full, K \in SUBSET keys}

\* Every JSON object that is one of the full objects or lacks one key of it.
ObjectsLackingOne(full, keys) ==
    full \cup {Restrict(f, keys \ {k}) : f \in full, k \in keys}

LevSnapshots ==
    Objects([totalCollateral : {Zero, R(1000, 1)},
             totalBorrowed : {Zero, R(500, 1), R(650, 1), R(750, 1)},
             currentHealthFactor : {Zero, R(11, 10), R(13, 10), R(3, 2), R(2, 1)},
             aitValue : {R(1000, 1)}],
            LevKeys)

LevMarkets ==
    {<<risk, liquidity, R(1, 2)>> :
        risk \in {Zero, R(2, 5), R(1, 2), R(4, 5), One},
        liquidity \in {Zero, R(1, 5), R(3, 10), R(2, 5), One}}

KycSnapshots ==
    ObjectsLackingOne(
        [investmentAmount : {Zero, R(600000, 1), R(1000000, 1), R(2000000, 1)},
         tier : 0..MaxTier,
         jurisdiction : {"US", "us", "KY"},
         transactionFrequency : {Zero, R(10, 1), R(40, 1), R(100, 1)},
         walletAgeDays : {Zero, R(20, 1), R(400, 1)},
         previousDefiExposure : {Zero}],
        KycKeys)

NavSnapshots ==
    ObjectsLackingOne(
        [totalFaceValue : {Zero, R(1000, 1)},
         numberOfInvoices : {Zero, R(50, 1), R(200, 1)},
         weightedMaturity : {Zero, R(90, 1), R(360, 1)},
         expectedYield : {R(1, 10)},
         defaultRate : {Zero, R(1, 20)},
         realizedYield : {Zero},
         totalSupply : {Zero, One, R(1000, 1)}],
        NavKeys)

NavMarkets ==
    {<<risk, R(1, 2), confidence>> :
        risk \in {Zero, R(1, 2), One}, confidence \in {Zero, One}}

\* The scenarios of the worked examples.
Scenario1 ==
    [totalCollateral |-> R(1000, 1), totalBorrowed |-> R(750, 1),
     currentHealthFactor |-> R(11, 10), aitValue |-> R(1000, 1)]

Scenario1Market == <<R(1, 2), R(2, 5), R(1, 2)>>

Scenario2 ==
    [investmentAmount |-> R(600000, 1), tier |-> 3, jurisdiction |-> "US",
     transactionFrequency |-> R(10, 1), walletAgeDays |-> R(400, 1),
     previousDefiExposure |-> Zero]

\* The inputs of the runs with several requests in flight.
MixLevSnapshots == {Scenario1}

MixKycSnapshots == {Scenario2}

MixNavSnapshots ==
    {[totalFaceValue |-> R(1000, 1), numberOfInvoices |-> R(50, 1),
      weightedMaturity |-> R(90, 1), expectedYield |-> R(1, 10),
      defaultRate |-> R(1, 20), realizedYield |-> Zero, totalSupply |-> R(1000, 1)]}

MixScenarios == {[scenario |-> "stress"], [scenario |-> "crash"]}

MixMarkets == {Scenario1Market, <<R(4, 5), R(1, 5), One>>}

(***************************************************************************)
(* The state machine: one process per request.                             *)
(*   idle -> recv       the request arrives (Flask enters the handler)     *)
(*   recv -> predicted  ml_engine.predict() returned                       *)
(*   recv -> done       predict() raised, or the handler calls no predict  *)
(*   predicted -> done  the handler computed and returned its response     *)
(* now is the wall clock in seconds; heap holds the dicts predict() made,  *)
(* obj[r] the one request r holds; got[r] and calls[r] record what         *)
(* predict() gave r and how often r called it.                             *)
(***************************************************************************)
Init ==
    /\ now = 0
    /\ pc = [r \in Requests |-> "idle"]
    /\ endpoint = [r \in Requests |-> "none"]
    /\ data = [r \in Requests |-> EmptyDict]
    /\ obj = [r \in Requests |-> 0]
    /\ heap = [o \in Requests |-> None]
    /\ got = [r \in Requests |-> None]
    /\ calls = [r \in Requests |-> 0]
    /\ resp = [r \in Requests |-> NoResponse]

\* One dict shared by every call.
SharedPredictionObject(r) == 1

\* predict() builds a new dict, result, on every call.
NewPredictionObject(r) == r

\* The handler calls predict() again when it raises.
PredictRaiseRetry(ep, e, t) == [pc |-> "recv", resp |-> NoResponse]

\* What a handler does when predict() raises e: the evaluators catch it and
\* answer 500 with its message; scenario_analysis has no handler, and Flask
\* answers 500 for it.
PredictRaiseOutcome(ep, e, t) ==
    [pc |-> "done",
     resp |-> IF ep = "scenario"
              THEN [status |-> 500, body |-> [error |-> "Internal Server Error"]]
              ELSE Error500(e, t)]

CallsPredict(r) ==
    \/ endpoint[r] \in {"leverage", "nav"}
    \/ endpoint[r] = "scenario" /\ data[r].scenario \in Scenarios

\* Request r arrives at endpoint ep with a body drawn from D. Requests are
\* numbered in the order they arrive.
Arrive(r, ep, D) ==
    /\ pc[r] = "idle"
    /\ \A q \in Requests : q < r => pc[q] # "idle"
    /\ \E d \in D : data' = [data EXCEPT ![r] = d]
    /\ endpoint' = [endpoint EXCEPT ![r] = ep]
    /\ pc' = [pc EXCEPT ![r] = "recv"]
    /\ UNCHANGED <<now, obj, heap, got, calls, resp>>

\* ml_engine.predict() returns to r a prediction with scores drawn from M.
PredictReturn(r, M) ==
    /\ pc[r] = "recv"
    /\ CallsPredict(r)
    /\ calls[r] < MaxPredictCalls
    /\ \E s \in M :
          LET m == Prediction(s[1], s[2], s[3], now)
              o == NewPredictionObject(r)
          IN  /\ heap' = [heap EXCEPT ![o] = m]
              /\ obj' = [obj EXCEPT ![r] = o]
              /\ got' = [got EXCEPT ![r] = m]
    /\ calls' = [calls EXCEPT ![r] = @ + 1]
    /\ pc' = [pc EXCEPT ![r] = "predicted"]
    /\ UNCHANGED <<now, endpoint, data, resp>>

\* ml_engine.predict() raises in r.
PredictRaise(r) ==
    /\ pc[r] = "recv"
    /\ CallsPredict(r)
    /\ calls[r] < MaxPredictCalls
    /\ LET out == PredictRaiseOutcome(endpoint[r], PredictorError, now)
       IN  /\ pc' = [pc EXCEPT ![r] = out.pc]
           /\ resp' = [resp EXCEPT ![r] = out.resp]
    /\ got' = [got EXCEPT ![r] = Raised(PredictorError)]
    /\ calls' = [calls EXCEPT ![r] = @ + 1]
    /\ UNCHANGED <<now, endpoint, data, obj, heap>>

LevRespond(r) ==
    /\ pc[r] = "predicted"
    /\ endpoint[r] = "leverage"
    /\ resp' = [resp EXCEPT ![r] = Ok200(LevVerdict(data[r], heap[obj[r]], now))]
    /\ pc' = [pc EXCEPT ![r] = "done"]
    /\ UNCHANGED <<now, endpoint, data, obj, heap, got, calls>>

KycRespond(r) ==
    /\ pc[r] = "recv"
    /\ endpoint[r] = "kyc"
    /\ resp' = [resp EXCEPT ![r] = Ok200(KycVerdict(data[r], now))]
    /\ pc' = [pc EXCEPT ![r] = "done"]
    /\ UNCHANGED <<now, endpoint, data, obj, heap, got, calls>>

NavRespond(r) ==
    /\ pc[r] = "predicted"
    /\ endpoint[r] = "nav"
    /\ resp' = [resp EXCEPT ![r] = NavOutcome(data[r], heap[obj[r]], now)]
    /\ pc' = [pc EXCEPT ![r] = "done"]
    /\ UNCHANGED <<now, endpoint, data, obj, heap, got, calls>>

ScenarioReject(r) ==
    /\ pc[r] = "recv"
    /\ endpoint[r] = "scenario"
    /\ data[r].scenario \notin Scenarios
    /\ resp' = [resp EXCEPT ![r] = [status |-> 400, body |-> [error |-> "Invalid scenario"]]]
    /\ pc' = [pc EXCEPT ![r] = "done"]
    /\ UNCHANGED <<now, endpoint, data, obj, heap, got, calls>>

\* The handler adjusts, in place, the dict predict() gave it and returns it.
ScenarioRespond(r) ==
    /\ pc[r] = "predicted"
    /\ endpoint[r] = "scenario"
    /\ LET adjusted == ScenarioAdjust(data[r].scenario, heap[obj[r]])
       IN  /\ heap' = [heap EXCEPT ![obj[r]] = adjusted]
           /\ resp' = [resp EXCEPT ![r] =
                          Ok200([scenario |-> data[r].scenario, prediction |-> adjusted])]
    /\ pc' = [pc EXCEPT ![r] = "done"]
    /\ UNCHANGED <<now, endpoint, data, obj, got, calls>>

\* A second passes.
Tick ==
    /\ now < MaxClock
    /\ now' = now + 1
    /\ UNCHANGED <<pc, endpoint, data, obj, heap, got, calls, resp>>

\* Requests to all four endpoints, in flight together.
Next ==
    \/ \E r \in Requests :
          \/ Arrive(r, "leverage", MixLevSnapshots)
          \/ Arrive(r, "kyc", MixKycSnapshots)
          \/ Arrive(r, "nav", MixNavSnapshots)
          \/ Arrive(r, "scenario", MixScenarios)
          \/ PredictReturn(r, MixMarkets)
          \/ PredictRaise(r)
          \/ LevRespond(r)
          \/ KycRespond(r)
          \/ NavRespond(r)
          \/ ScenarioReject(r)
          \/ ScenarioRespond(r)
    \/ Tick

Spec == Init /\ [][Next]_vars

\* One leverage-health request, over the whole of LevSnapshots and LevMarkets.
NextLev ==
    \/ Arrive(1, "leverage", LevSnapshots)
    \/ PredictReturn(1, LevMarkets)
    \/ PredictRaise(1)
    \/ LevRespond(1)
    \/ Tick

SpecLev == Init /\ [][NextLev]_vars

\* One KYC request, over the whole of KycSnapshots.
NextKyc ==
    \/ Arrive(1, "kyc", KycSnapshots)
    \/ KycRespond(1)
    \/ Tick

SpecKyc == Init /\ [][NextKyc]_vars

\* One NAV request, over the whole of NavSnapshots and NavMarkets.
NextNav ==
    \/ Arrive(1, "nav", NavSnapshots)
    \/ PredictReturn(1, NavMarkets)
    \/ PredictRaise(1)
    \/ NavRespond(1)
    \/ Tick

SpecNav == Init /\ [][NextNav]_vars

(***************************************************************************)
(* What the claims speak of.                                               *)
(***************************************************************************)
IsPrediction(x) == "risk_score" \in DOMAIN x

HasRaised(x) == "raised" \in DOMAIN x

\* Request r has been answered by endpoint ep.
Answered(r, ep) == pc[r] = "done" /\ endpoint[r] = ep

\* Request r has been answered by endpoint ep after predict() returned to it.
AnsweredWithMarket(r, ep) == Answered(r, ep) /\ IsPrediction(got[r])

InUnit(x) == RLe(Zero, x) /\ RLe(x, One)

Elems(seq) == {seq[i] : i \in DOMAIN seq}

IsScenario1(r) ==
    /\ AnsweredWithMarket(r, "leverage")
    /\ DOMAIN data[r] = LevKeys
    /\ data[r] = Scenario1
    /\ Scores(got[r]) = Scenario1Market

\* C1 as stated: the leverage evaluation of collateral 1000, borrowed 750,
\* health factor 1.1 under risk_score 0.5 and liquidity_score 0.4 yields
\* ltv_risk 1.0, health_factor_risk 0.2667, market_risk 0.5, liquidity_risk 0.6,
\* composite 0.6050, tier HIGH, action_required true, and recommendations that
\* include REDUCE_LEVERAGE and EMERGENCY_DELEVERAGE.
C1_Original ==
    \A r \in Requests :
        IsScenario1(r) =>
            LET b == resp[r].body
            IN  /\ resp[r].status = 200
                /\ b.risk_breakdown.ltv_risk = One
                /\ Round4(b.risk_breakdown.health_factor_risk) = 2667
                /\ b.risk_breakdown.market_risk = R(1, 2)
                /\ b.risk_breakdown.liquidity_risk = R(3, 5)
                /\ Round4(b.composite_risk_score) = 6050
                /\ b.risk_level = "HIGH"
                /\ b.action_required = TRUE
                /\ {"REDUCE_LEVERAGE", "EMERGENCY_DELEVERAGE"} \subseteq Elems(b.recommendations)

\* C1 as amended: the same evaluation yields the same four factors, a composite
\* of 0.5950 (0.3*1.0 + 0.3*0.2667 + 0.25*0.5 + 0.15*0.6), tier MEDIUM,
\* action_required false, and recommendations that include REDUCE_LEVERAGE and
\* EMERGENCY_DELEVERAGE.
C1_Scenario1 ==
    \A r \in Requests :
        IsScenario1(r) =>
            LET b == resp[r].body
            IN  /\ resp[r].status = 200
                /\ b.risk_breakdown.ltv_risk = One
                /\ Round4(b.risk_breakdown.health_factor_risk) = 2667
                /\ b.risk_breakdown.market_risk = R(1, 2)
                /\ b.risk_breakdown.liquidity_risk = R(3, 5)
                /\ b.composite_risk_score = R(595, 1000)
                /\ Round4(b.composite_risk_score) = 5950
                /\ b.risk_level = "MEDIUM"
                /\ b.action_required = FALSE
                /\ {"REDUCE_LEVERAGE", "EMERGENCY_DELEVERAGE"} \subseteq Elems(b.recommendations)

C1_Witness == \E r \in Requests : IsScenario1(r) /\ resp[r].status = 200

\* The request's JSON object with every absent required field set to zero.
LevZeroFilled(d) == [k \in LevKeys |-> IF k \in DOMAIN d THEN d[k] ELSE Zero]

LevLacksField(d) == \E k \in LevKeys : k \notin DOMAIN d

IsInvalidInputError(rsp) ==
    /\ rsp.status >= 400
    /\ rsp.status < 500
    /\ "error" \in DOMAIN rsp.body
    /\ "composite_risk_score" \notin DOMAIN rsp.body

C5_FactorsInUnit ==
    \A r \in Requests :
        AnsweredWithMarket(r, "leverage") =>
            LET b == resp[r].body
            IN  /\ resp[r].status = 200
                /\ InUnit(b.risk_breakdown.ltv_risk)
                /\ InUnit(b.risk_breakdown.health_factor_risk)
                /\ InUnit(b.risk_breakdown.market_risk)
                /\ InUnit(b.risk_breakdown.liquidity_risk)
                /\ InUnit(b.composite_risk_score)

\* A position whose loan-to-value exceeds 70% and whose health factor exceeds 1.5:
\* both clamps act.
C5_Witness ==
    \E r \in Requests :
        /\ AnsweredWithMarket(r, "leverage")
        /\ resp[r].status = 200
        /\ RGt(resp[r].body.position_metrics.ltv, R(7, 10))
        /\ RGt(resp[r].body.position_metrics.health_factor, R(3, 2))
        /\ resp[r].body.risk_breakdown.ltv_risk = One
        /\ resp[r].body.risk_breakdown.health_factor_risk = Zero

TierRank(tier) ==
    CASE tier = "LOW" -> 0
      [] tier = "MEDIUM" -> 1
      [] tier = "HIGH" -> 2
      [] tier = "CRITICAL" -> 3

\* Composite scores 0, 0.05, ..., 1 to compare a verdict's tier with.
ScoreGrid == {R(k, 20) : k \in 0..20}

\* C6: the leverage tier is CRITICAL iff composite > 0.8, HIGH iff 0.6 < composite
\* <= 0.8, MEDIUM iff 0.4 < composite <= 0.6, LOW iff composite <= 0.4 (exactly
\* 0.8 is HIGH, exactly 0.4 is LOW); the mapping is monotone; action_required is
\* true exactly when the tier is CRITICAL or HIGH.
C6_TierBands ==
    \A r \in Requests :
        AnsweredWithMarket(r, "leverage") =>
            LET b == resp[r].body
                c == b.composite_risk_score
                tier == b.risk_level
            IN  /\ tier \in {"LOW", "MEDIUM", "HIGH", "CRITICAL"}
                /\ (tier = "CRITICAL") <=> RGt(c, R(8, 10))
                /\ (tier = "HIGH") <=> (RGt(c, R(6, 10)) /\ RLe(c, R(8, 10)))
                /\ (tier = "MEDIUM") <=> (RGt(c, R(4, 10)) /\ RLe(c, R(6, 10)))
                /\ (tier = "LOW") <=> RLe(c, R(4, 10))
                /\ (c = R(8, 10)) => tier = "HIGH"
                /\ (c = R(4, 10)) => tier = "LOW"
                /\ \A y \in ScoreGrid :
                      /\ RLe(y, c) => TierRank(LevRiskLevel(y)) <= TierRank(tier)
                      /\ RLe(c, y) => TierRank(tier) <= TierRank(LevRiskLevel(y))
                /\ b.action_required <=> tier \in {"CRITICAL", "HIGH"}

\* A composite of exactly 0.8, classified HIGH.
C6_Witness ==
    \E r \in Requests :
        /\ AnsweredWithMarket(r, "leverage")
        /\ resp[r].body.composite_risk_score = R(8, 10)
        /\ resp[r].body.risk_level = "HIGH"
        /\ resp[r].body.action_required

\* C3: a NAV forecast request whose total_supply is 0 ends in an error outcome (a
\* division error reported to the caller) and returns no predicted_nav, whatever
\* the pool snapshot and the market assessment.
C3_ZeroSupplyFails ==
    \A r \in Requests :
        (Answered(r, "nav") /\ "totalSupply" \in DOMAIN data[r]
                            /\ RIsZero(data[r].totalSupply)) =>
            /\ resp[r].status = 500
            /\ "error" \in DOMAIN resp[r].body
            /\ "predicted_nav" \notin DOMAIN resp[r].body
            /\ IsPrediction(got[r]) => resp[r].body.error = ZeroDivisionError

C3_Witness ==
    \E r \in Requests :
        /\ AnsweredWithMarket(r, "nav")
        /\ "totalSupply" \in DOMAIN data[r]
        /\ RIsZero(data[r].totalSupply)
        /\ RGt(data[r].totalFaceValue, Zero)
        /\ resp[r].body.error = ZeroDivisionError

Evaluators == {"leverage", "kyc", "nav"}

\* Two answered calls of one evaluator with identical snapshots and, where the
\* evaluator consumes one, identical scores from the predictor.
SameCall(r1, r2) ==
    /\ r1 # r2
    /\ pc[r1] = "done"
    /\ pc[r2] = "done"
    /\ endpoint[r1] \in Evaluators
    /\ endpoint[r1] = endpoint[r2]
    /\ DOMAIN data[r1] = DOMAIN data[r2]
    /\ data[r1] = data[r2]
    /\ \/ endpoint[r1] = "kyc"
       \/ /\ IsPrediction(got[r1])
          /\ IsPrediction(got[r2])
          /\ Scores(got[r1]) = Scores(got[r2])

\* A response without the time it was made at.
SansTimestamp(rsp) ==
    [status |-> rsp.status,
     body |-> Restrict(rsp.body, DOMAIN rsp.body \ {"timestamp"})]

C7_KycClassification ==
    \A r \in Requests :
        Answered(r, "kyc") =>
            LET b == resp[r].body
                f == b.risk_factors
                c == b.kyc_risk_score
                class == b.risk_classification
            IN  /\ resp[r].status = 200
                /\ c = RAdd(RAdd(RAdd(RMul(R(3, 10), f.amount_risk),
                                      RMul(R(2, 10), f.velocity_risk)),
                                 RMul(R(3, 10), f.wallet_risk)),
                            RMul(R(2, 10), f.jurisdiction_risk))
                /\ (class = "HIGH_RISK") <=> RGt(c, R(7, 10))
                /\ (class = "MEDIUM_RISK") <=> (RGt(c, R(4, 10)) /\ RLe(c, R(7, 10)))
                /\ (class = "LOW_RISK") <=> RLe(c, R(4, 10))
                /\ b.verification_required <=> (class # "LOW_RISK")
                /\ (DOMAIN data[r] = KycKeys /\ data[r] = Scenario2) =>
                      /\ c = R(22, 100)
                      /\ class = "LOW_RISK"
                      /\ b.verification_required = FALSE
                      /\ b.compliance_flags = <<"LARGE_INVESTMENT">>

C7_Witness ==
    \E r \in Requests :
        /\ Answered(r, "kyc")
        /\ DOMAIN data[r] = KycKeys
        /\ data[r] = Scenario2
        /\ resp[r].body.risk_classification = "LOW_RISK"

\* The response request r would get if it ran alone with the same input, the same
\* result of predict() and the same clock: computed from data[r] and got[r] only.
ResponseTime(rsp) ==
    IF rsp.status = 200 THEN rsp.body.timestamp ELSE rsp.body.timestamp[2]

AloneResponse(r) ==
    CASE endpoint[r] = "kyc" ->
            Ok200(KycVerdict(data[r], ResponseTime(resp[r])))
      [] endpoint[r] = "scenario" ->
            IF data[r].scenario \notin Scenarios
            THEN [status |-> 400, body |-> [error |-> "Invalid scenario"]]
            ELSE IF HasRaised(got[r])
            THEN [status |-> 500, body |-> [error |-> "Internal Server Error"]]
            ELSE Ok200([scenario |-> data[r].scenario,
                        prediction |-> ScenarioAdjust(data[r].scenario, got[r])])
      [] endpoint[r] = "leverage" ->
            IF HasRaised(got[r])
            THEN Error500(got[r].raised, ResponseTime(resp[r]))
            ELSE Ok200(LevVerdict(data[r], got[r], ResponseTime(resp[r])))
      [] endpoint[r] = "nav" ->
            IF HasRaised(got[r])
            THEN Error500(got[r].raised, ResponseTime(resp[r]))
            ELSE NavOutcome(data[r], got[r], ResponseTime(resp[r]))

\* C8: under any interleaving of requests to the leverage, KYC, NAV and scenario
\* endpoints each response is the one the request would get when run alone with
\* the same snapshot and the same predictor output, and no two requests hold the
\* same prediction object: what a handler reads and writes is its own.
C8_Isolation ==
    /\ \A r \in Requests :
          pc[r] = "done" =>
              LET alone == AloneResponse(r)
              IN  /\ resp[r].status = alone.status
                  /\ DOMAIN resp[r].body = DOMAIN alone.body
                  /\ resp[r] = alone
    /\ \A r1, r2 \in Requests : (r1 # r2 /\ obj[r1] # 0) => obj[r1] # obj[r2]

\* Request 1, a leverage evaluation answered at second 1, was in flight while
\* request 2, a stress scenario, got its prediction at second 0 and adjusted it.
C8_Witness ==
    /\ Answered(1, "leverage")
    /\ resp[1].status = 200
    /\ resp[1].body.timestamp = 1
    /\ Answered(2, "scenario")
    /\ resp[2].status = 200
    /\ data[2].scenario = "stress"
    /\ got[2].timestamp = 0
    /\ resp[2].body.prediction.risk_score # got[2].risk_score

\* C9: a leverage or NAV evaluation invokes the predictor exactly once and a KYC
\* evaluation never; when the invocation fails the request ends in a 500 error
\* carrying the predictor's error, with no verdict, and the predictor is not
\* invoked again.
C9_PredictOnce ==
    \A r \in Requests :
        /\ calls[r] <= 1
        /\ Answered(r, "leverage") \/ Answered(r, "nav") => calls[r] = 1
        /\ endpoint[r] = "kyc" => calls[r] = 0 /\ ~IsPrediction(got[r]) /\ ~HasRaised(got[r])
        /\ (endpoint[r] \in {"leverage", "nav"} /\ HasRaised(got[r])) =>
              /\ pc[r] = "done"
              /\ resp[r].status = 500
              /\ DOMAIN resp[r].body = {"error", "timestamp"}
              /\ resp[r].body.error = got[r].raised

C9_Witness ==
    \E r1, r2 \in Requests :
        /\ Answered(r1, "nav")
        /\ HasRaised(got[r1])
        /\ resp[r1].status = 500
        /\ calls[r1] = 1
        /\ Answered(r2, "kyc")
        /\ calls[r2] = 0

\* C10: the KYC evaluator's recommended_tier is min(requested tier, cap), cap
\* being 2 when the composite score is > 0.5 and 4 otherwise; so it never exceeds
\* the requested tier, never exceeds 4, and never exceeds 2 when the composite is
\* > 0.5, which every HIGH_RISK verdict is.
C10_RecommendedTier ==
    \A r \in Requests :
        Answered(r, "kyc") =>
            LET b == resp[r].body
                tier == IF "tier" \in DOMAIN data[r] THEN data[r].tier ELSE 0
                cap == IF RGt(b.kyc_risk_score, R(5, 10)) THEN 2 ELSE 4
            IN  /\ b.recommended_tier = (IF tier <= cap THEN tier ELSE cap)
                /\ b.recommended_tier <= tier
                /\ b.recommended_tier <= 4
                /\ RGt(b.kyc_risk_score, R(5, 10)) => b.recommended_tier <= 2
                /\ b.risk_classification = "HIGH_RISK" => b.recommended_tier <= 2

\* A HIGH_RISK investor who asked for tier 5 and is recommended tier 2.
C10_Witness ==
    \E r \in Requests :
        /\ Answered(r, "kyc")
        /\ "tier" \in DOMAIN data[r]
        /\ data[r].tier = 5
        /\ resp[r].body.risk_classification = "HIGH_RISK"
        /\ resp[r].body.recommended_tier = 2

\* No rule of the recommendations applies: ltv <= 0.65, health factor >= 1.3 and
\* liquidity_score >= 0.3.
NoRuleApplies(ltv, hf, liquidity) ==
    /\ RLe(ltv, R(65, 100))
    /\ RLe(R(13, 10), hf)
    /\ RLe(R(3, 10), liquidity)

\* C11: whenever the leverage evaluator returns tier CRITICAL its recommendations
\* hold at least one of REDUCE_LEVERAGE, EMERGENCY_DELEVERAGE and
\* PAUSE_NEW_POSITIONS, because a position with ltv <= 0.65, health factor >= 1.3
\* and liquidity_score >= 0.3 (the only one with no recommendation) has a
\* composite score of at most 0.8.
C11_CriticalHasRecommendation ==
    \A r \in Requests :
        AnsweredWithMarket(r, "leverage") =>
            LET b == resp[r].body
                quiet == NoRuleApplies(b.position_metrics.ltv,
                                       b.position_metrics.health_factor,
                                       got[r].liquidity_score)
            IN  /\ b.risk_level = "CRITICAL" =>
                      /\ b.recommendations # <<>>
                      /\ Elems(b.recommendations) \cap
                             {"REDUCE_LEVERAGE", "EMERGENCY_DELEVERAGE",
                              "PAUSE_NEW_POSITIONS"} # {}
                /\ (b.recommendations = <<>>) <=> quiet
                /\ quiet => RLe(b.composite_risk_score, R(8, 10))

\* A CRITICAL verdict that the health-factor rule alone gives a recommendation.
C11_Witness ==
    \E r \in Requests :
        /\ AnsweredWithMarket(r, "leverage")
        /\ resp[r].body.risk_level = "CRITICAL"
        /\ resp[r].body.recommendations = <<"EMERGENCY_DELEVERAGE">>

====
